---- MODULE Spec2Model ----
(***************************************************************************)
(* osfs: block allocation by extents (src/inode.c) and the file read,     *)
(* write and unlink handlers that use it (src/file.c).                     *)
(*                                                                         *)
(* C arrays are 0-based; the sequences below are 1-based, so the C entry   *)
(* a[k] is the element a[k + 1].  Bytes a write stores are a fixed         *)
(* function of the writing file and the logical offset (Payload), so that  *)
(* a byte fetched from the wrong place is told from the right one.         *)
(***************************************************************************)
EXTENDS Integers, Sequences, FiniteSets, TLC

\* ---------------------------------------------------------------- bounds
\* sb_info->block_count: the number of blocks of the pool.
BlockCount == 3
\* Bytes per block (the macro of osfs.h, scaled down).
BLOCK_SIZE == 2
\* Number of regular files (inodes) that are read, written and unlinked.
NFiles == 2
\* Largest value of *ppos + len a caller passes.
MaxPos == 4

\* ------------------------------------------------------------- constants
ENOSPC == 28
UNSET == -1

Blocks == 0 .. (BlockCount - 1)
Files == 1 .. NFiles
PoolBytes == BlockCount * BLOCK_SIZE

\* The byte of file f's buffer for logical offset k: all zero (plain), or a
\* value that tells the file and the offset within the block (tagged).
Payload(f, k) == (f - 1) * BLOCK_SIZE + (k % BLOCK_SIZE) + 1
Buffer(f, tagged, k) == IF tagged THEN Payload(f, k) ELSE 0
ByteVals == 0 .. (NFiles * BLOCK_SIZE)

VARIABLES
    block_bitmap,      \* sb_info->block_bitmap: block -> allocated?
    nr_free_blocks,    \* sb_info->nr_free_blocks
    data_blocks,       \* sb_info->data_blocks: byte address -> byte
    i_blocks,          \* osfs_inode->i_blocks, per file
    i_size,            \* osfs_inode->i_size, per file
    i_blocks_ptr,      \* osfs_inode->i_blocks_ptr, per file (<<>> before kmalloc)
    i_blocks_length,   \* osfs_inode->i_blocks_length, per file
    last,              \* the last call: which, on which file, what it returned
    io,                \* the last write's arguments and the last read's result
    held,              \* the blocks other inodes hold from the start
    procs              \* the writes in progress, one caller per file

vars == <<block_bitmap, nr_free_blocks, data_blocks, i_blocks, i_size,
          i_blocks_ptr, i_blocks_length, last, io, held, procs>>

Max(a, b) == IF a >= b THEN a ELSE b

RECURSIVE Fill(_, _)
Fill(n, v) == IF n = 0 THEN <<>> ELSE Append(Fill(n - 1, v), v)

NoSnap == [bm |-> <<>>, fr |-> 0]

\* first: the write found the file empty (no blocks, size 0) and grew it.
\* grew: the write grew a file whose list held an extent already.
\* after: the unlink came right after a successful first write of the file;
\* snap is then the pool as it was before that write.
\* res: what an allocator called on its own left in *block_no or its arrays.
NoCall == [op |-> "none", f |-> 0, ret |-> 0, first |-> FALSE, grew |-> FALSE,
           after |-> FALSE, ub |-> FALSE, snap |-> NoSnap, res |-> <<>>]

NoWrite == [f |-> 0, pos |-> 0, len |-> 0, first |-> FALSE, grew |-> FALSE]
NoRead == [f |-> 0, pos |-> 0, len |-> 0, ret |-> 0, out |-> <<>>,
           after |-> FALSE, first |-> FALSE, grew |-> FALSE, ub |-> FALSE]
NoIO == [w |-> NoWrite, r |-> NoRead]

\* A caller of osfs_write between calls.  pc: where the call stands; ppos,
\* len: its arguments; needed: block_needed; i, idx, cnt: the scan's i,
\* block_idx and block_count; inrun: inside the while loop of line 183; tmp:
\* the value of nr_free_blocks the decrement has loaded; claimed: the blocks
\* this call has marked; ret: what the call returned.
IdleProc == [pc |-> "idle", ppos |-> 0, len |-> 0, needed |-> 0, i |-> 0,
             idx |-> 0, cnt |-> 0, inrun |-> FALSE, tmp |-> 0, claimed |-> {},
             ret |-> 0]

\* ------------------------------------------------- osfs_free_data_block
osfs_free_data_block(sb, block_no) ==
    [bm |-> [sb.bm EXCEPT ![block_no] = FALSE], fr |-> sb.fr + 1]

\* ------------------------------------ osfs_realloc_multiple_data_blocks
\* The counting loop of lines 155-162: the blocks the list already holds and
\* the index of its first unset entry.
RECURSIVE CountHeld(_, _, _, _)
CountHeld(block_length, block_needed, block_idx, block_count) ==
    IF block_idx < block_needed /\ block_length[block_idx + 1] /= UNSET
    THEN CountHeld(block_length, block_needed, block_idx + 1,
                   block_count + block_length[block_idx + 1])
    ELSE [idx |-> block_idx, cnt |-> block_count]

\* A store to a[idx]: past the end of the allocation it is undefined; the
\* array keeps its entries (the store lands outside it).
StoreAt(a, idx, v) == IF idx < Len(a) THEN [a EXCEPT ![idx + 1] = v] ELSE a
IncrAt(a, idx) == IF idx < Len(a) THEN [a EXCEPT ![idx + 1] = @ + 1] ELSE a

\* Line 175: the test that starts an extent at block i.
BlockIsFree(bm, i) == ~bm[i]
\* The test of line 183 with the polarity of line 138: an extent runs on over
\* allocated blocks.
RunContinues_Inverted(bm, i) == i < BlockCount /\ bm[i]
\* Line 183: the test that extends the current extent over block i.
RunContinues(bm, i) == i < BlockCount /\ ~bm[i]

\* The scan of lines 174-197.  st: bm, fr, nos, len (the arrays), idx
\* (block_idx), cnt (block_count), ub (a store went past the arrays).
\* inrun is TRUE inside the while loop of line 183.
\* One block taken at line 176-180 (start of an extent) or 184-187 (its
\* extension).
TakeFirst(st, i) ==
    [st EXCEPT !.bm = [st.bm EXCEPT ![i] = TRUE],
               !.fr = st.fr - 1,
               !.nos = StoreAt(st.nos, st.idx, i),
               !.len = StoreAt(st.len, st.idx, 1),
               !.cnt = st.cnt + 1,
               !.ub = st.ub \/ st.idx >= Len(st.len)]
TakeNext(st, i) ==
    [st EXCEPT !.bm = [st.bm EXCEPT ![i] = TRUE],
               !.len = IncrAt(st.len, st.idx),
               !.fr = st.fr - 1,
               !.cnt = st.cnt + 1,
               !.ub = st.ub \/ st.idx >= Len(st.len)]

RECURSIVE Scan(_, _, _, _)
Taken(st2, i, block_needed) ==
    IF st2.cnt = block_needed
    THEN [st2 EXCEPT !.ret = 0]
    ELSE Scan(st2, i + 1, TRUE, block_needed)
Scan(st, i, inrun, block_needed) ==
    IF inrun
    THEN IF RunContinues(st.bm, i)
         THEN Taken(TakeNext(st, i), i, block_needed)
         ELSE Scan([st EXCEPT !.idx = st.idx + 1], i, FALSE, block_needed)
    ELSE IF i >= BlockCount
         THEN [st EXCEPT !.ret = -ENOSPC]
         ELSE IF BlockIsFree(st.bm, i)
              THEN Taken(TakeFirst(st, i), i, block_needed)
              ELSE Scan(st, i + 1, FALSE, block_needed)

osfs_realloc_multiple_data_blocks(sb, block_nos, block_length, block_needed) ==
    LET counted == CountHeld(block_length, block_needed, 0, 0)
    IN Scan([bm |-> sb.bm, fr |-> sb.fr, nos |-> block_nos, len |-> block_length,
             idx |-> counted.idx, cnt |-> counted.cnt, ub |-> FALSE, ret |-> 0],
            0, FALSE, block_needed)

\* -------------------------------------------------- offset translation
\* The walk of lines 147-154 with > for >= in the test of line 148.
RECURSIVE Translate_Strict(_, _, _)
Translate_Strict(block_length, idx_of_block, idx_of_iblock) ==
    IF idx_of_block > 0
    THEN IF idx_of_iblock >= Len(block_length)
         THEN [e |-> idx_of_iblock, j |-> idx_of_block, oob |-> TRUE]
         ELSE IF idx_of_block > block_length[idx_of_iblock + 1]
              THEN Translate_Strict(block_length,
                                    idx_of_block - block_length[idx_of_iblock + 1],
                                    idx_of_iblock + 1)
              ELSE [e |-> idx_of_iblock, j |-> idx_of_block, oob |-> FALSE]
    ELSE [e |-> idx_of_iblock, j |-> idx_of_block, oob |-> FALSE]

\* Lines 41-51 of osfs_read and 144-154 of osfs_write.  oob: the walk read
\* i_blocks_length past the end of the array.
RECURSIVE Translate(_, _, _)
Translate(block_length, idx_of_block, idx_of_iblock) ==
    IF idx_of_block > 0
    THEN IF idx_of_iblock >= Len(block_length)
         THEN [e |-> idx_of_iblock, j |-> idx_of_block, oob |-> TRUE]
         ELSE IF idx_of_block >= block_length[idx_of_iblock + 1]
              THEN Translate(block_length,
                             idx_of_block - block_length[idx_of_iblock + 1],
                             idx_of_iblock + 1)
              ELSE [e |-> idx_of_iblock, j |-> idx_of_block, oob |-> FALSE]
    ELSE [e |-> idx_of_iblock, j |-> idx_of_block, oob |-> FALSE]

\* Lines 52 and 155: the byte address in the pool, or -1 when the pointer is
\* formed from an entry past the arrays or from the unset marker (a wild
\* pointer: the access is undefined).
DataAddress(block_nos, block_length, ppos) ==
    LET t == Translate(block_length, ppos \div BLOCK_SIZE, 0)
    IN IF t.oob \/ t.e >= Len(block_nos) \/ block_nos[t.e + 1] = UNSET
       THEN -1
       ELSE block_nos[t.e + 1] * BLOCK_SIZE + t.j * BLOCK_SIZE + (ppos % BLOCK_SIZE)

\* ------------------------------------------------------------ osfs_write
\* Lines 98-116: the arrays as kmalloc / krealloc and the -1 loops leave them.
PrepareArrays(a, blocks, block_needed) ==
    IF blocks = 0
    THEN Fill(block_needed, UNSET)
    ELSE SubSeq(a, 1, blocks) \o Fill(block_needed - blocks, UNSET)

\* Lines 143-163: the copy loop, one chunk per block.  A chunk whose address
\* is wild lands outside the pool.
RECURSIVE CopyIn(_, _, _, _, _, _, _)
CopyIn(data, f, tagged, block_nos, block_length, ppos, len) ==
    IF len = 0
    THEN [data |-> data, ub |-> FALSE]
    ELSE LET addr == DataAddress(block_nos, block_length, ppos)
             offset_in_block == ppos % BLOCK_SIZE
             write_len == IF len > BLOCK_SIZE - offset_in_block
                          THEN BLOCK_SIZE - offset_in_block ELSE len
             data2 == IF addr < 0 THEN data
                      ELSE [a \in DOMAIN data |->
                              IF a >= addr /\ a < addr + write_len
                              THEN Buffer(f, tagged, ppos + (a - addr))
                              ELSE data[a]]
             rest == CopyIn(data2, f, tagged, block_nos, block_length,
                            ppos + write_len, len - write_len)
         IN [data |-> rest.data, ub |-> rest.ub \/ addr < 0]

\* Line 138.
NewSize(old_size, ppos, len) == ppos + len

\* Line 96.
BlockNeeded(ppos, len) ==
    (ppos + len) \div BLOCK_SIZE + (IF (ppos + len) % BLOCK_SIZE = 0 THEN 0 ELSE 1)

\* Line 98.
NeedsGrowth(blocks, block_needed) == blocks < block_needed

\* Lines 96-121: the growth part of osfs_write on file f.
Grow(f, block_needed) ==
    LET nos0 == PrepareArrays(i_blocks_ptr[f], i_blocks[f], block_needed)
        len0 == PrepareArrays(i_blocks_length[f], i_blocks[f], block_needed)
    IN osfs_realloc_multiple_data_blocks(
           [bm |-> block_bitmap, fr |-> nr_free_blocks], nos0, len0, block_needed)

\* osfs_write, lines 76-181, with the caller's buffer plain or tagged.
osfs_write(f, ppos, len, tagged) ==
    LET block_needed == BlockNeeded(ppos, len)
        grow == NeedsGrowth(i_blocks[f], block_needed)
        r == IF grow
             THEN Grow(f, block_needed)
             ELSE [bm |-> block_bitmap, fr |-> nr_free_blocks,
                   nos |-> i_blocks_ptr[f], len |-> i_blocks_length[f],
                   ub |-> FALSE, ret |-> 0]
        first == grow /\ i_blocks[f] = 0 /\ i_size[f] = 0
    \* rr, c: the results, each computed once
    IN \E rr \in {r} :
       \E c \in {CopyIn(data_blocks, f, tagged, rr.nos, rr.len, ppos, len)} :
       /\ block_bitmap' = rr.bm
       /\ nr_free_blocks' = rr.fr
       /\ i_blocks_ptr' = [i_blocks_ptr EXCEPT ![f] = rr.nos]
       /\ i_blocks_length' = [i_blocks_length EXCEPT ![f] = rr.len]
       /\ IF rr.ret < 0
          THEN /\ UNCHANGED <<i_blocks, i_size, data_blocks>>
               /\ last' = [NoCall EXCEPT !.op = "write", !.f = f,
                                         !.ret = -ENOSPC, !.ub = rr.ub]
          ELSE /\ i_blocks' = [i_blocks EXCEPT ![f] = IF grow THEN block_needed ELSE @]
               /\ i_size' = [i_size EXCEPT ![f] = NewSize(@, ppos, len)]
               /\ data_blocks' = c.data
               /\ last' = [NoCall EXCEPT
                             !.op = "write", !.f = f, !.ret = len, !.first = first,
                             !.grew = /\ grow /\ i_blocks[f] > 0
                                      /\ i_blocks_length[f][1] /= UNSET,
                             !.ub = rr.ub \/ c.ub,
                             !.snap = IF first
                                      THEN [bm |-> block_bitmap, fr |-> nr_free_blocks]
                                      ELSE NoSnap]

\* A write of plain bytes.
Write(f, ppos, len) ==
    /\ osfs_write(f, ppos, len, FALSE)
    /\ UNCHANGED <<io, held, procs>>

\* A write of tagged bytes, its arguments kept for the read that follows.
WriteData(f, ppos, len) ==
    /\ osfs_write(f, ppos, len, TRUE)
    /\ io' = [w |-> [f |-> f, pos |-> ppos, len |-> len, first |-> last'.first,
                     grew |-> last'.grew],
              r |-> NoRead]
    /\ UNCHANGED <<held, procs>>

\* ------------------------------------------------------------- osfs_read
\* Lines 33-34.
ClampLen(size, ppos, len) == IF ppos + len > size THEN size - ppos ELSE len

\* Lines 52-53: len bytes from one address on; a byte past the pool (or all
\* of them, when the address is wild) is whatever lies there (g).
CopyOut(data, addr, len, g) ==
    [k \in 1 .. len |->
        IF addr >= 0 /\ addr + (k - 1) < PoolBytes THEN data[addr + (k - 1)] ELSE g]

\* What a read leaves in last.res: *ppos and len as passed, *ppos at the
\* return (line 56), and the size and the arrays of the file before the call.
ReadArgs(f, ppos, len, newpos) ==
    <<ppos, len, newpos, i_size[f], i_blocks_ptr[f], i_blocks_length[f]>>

\* osfs_read, lines 18-60.  io keeps the bytes of a read that follows a
\* successful write of the same file, offset and length.
Read(f, ppos, len) ==
    /\ UNCHANGED <<block_bitmap, nr_free_blocks, data_blocks, i_blocks, i_size,
                   i_blocks_ptr, i_blocks_length, held, procs>>
    /\ LET follows == /\ last.op = "write" /\ last.ret = len /\ ~last.ub
                      /\ io.w.f = f /\ io.w.pos = ppos /\ io.w.len = len
       IN IF i_blocks[f] = 0 \/ ppos >= i_size[f]
          THEN /\ last' = [NoCall EXCEPT !.op = "read", !.f = f,
                                         !.res = ReadArgs(f, ppos, len, ppos),
                                         !.snap = [bm |-> block_bitmap,
                                                   fr |-> nr_free_blocks]]
               /\ io' = IF follows
                        THEN [w |-> NoWrite,
                              r |-> [NoRead EXCEPT !.f = f, !.pos = ppos, !.len = len,
                                                   !.after = TRUE,
                                                   !.first = io.w.first,
                                                   !.grew = io.w.grew]]
                        ELSE NoIO
          ELSE LET n == ClampLen(i_size[f], ppos, len)
                   addr == DataAddress(i_blocks_ptr[f], i_blocks_length[f], ppos)
                   outside == addr < 0 \/ addr + n > PoolBytes
               IN \E g \in (IF outside THEN ByteVals ELSE {0}) :
                    /\ last' = [NoCall EXCEPT !.op = "read", !.f = f, !.ret = n,
                                              !.ub = outside,
                                              !.res = ReadArgs(f, ppos, len, ppos + n),
                                              !.snap = [bm |-> block_bitmap,
                                                        fr |-> nr_free_blocks]]
                    /\ io' = IF follows
                             THEN [w |-> NoWrite,
                                   r |-> [f |-> f, pos |-> ppos, len |-> len,
                                          ret |-> n,
                                          out |-> CopyOut(data_blocks, addr, n, g),
                                          after |-> TRUE, first |-> io.w.first,
                                          grew |-> io.w.grew,
                                          ub |-> outside]]
                             ELSE NoIO

\* The offset translation of osfs_read and osfs_write (file.c 41-52 and
\* 144-155) for logical block b of file f, which both reach only with
\* i_blocks > 0 and b < i_blocks.  res: b, the entry and the index in it the
\* walk stops at, and the block the address is formed from; ub: the walk
\* read past the arrays.  There is no error return.
Locate(f, b) ==
    /\ i_blocks[f] > 0
    /\ b < i_blocks[f]
    /\ \E t \in {Translate(i_blocks_length[f], b, 0)} :
         last' = [NoCall EXCEPT
                    !.op = "translate", !.f = f, !.ret = 0,
                    !.ub = t.oob \/ t.e >= Len(i_blocks_ptr[f]),
                    !.res = <<b, t.e, t.j,
                              IF t.e < Len(i_blocks_ptr[f])
                              THEN i_blocks_ptr[f][t.e + 1] + t.j ELSE UNSET>>]
    /\ UNCHANGED <<block_bitmap, nr_free_blocks, data_blocks, i_blocks, i_size,
                   i_blocks_ptr, i_blocks_length, io, held, procs>>

\* ----------------------------------------------------------- osfs_unlink
\* The loop of lines 211-213 with its test after the body.
RECURSIVE FreeExtent_DoWhile(_, _, _, _)
FreeExtent_DoWhile(sb, start, length, j) ==
    IF j = 0 \/ j < length
    THEN FreeExtent_DoWhile(osfs_free_data_block(sb, start + j), start, length, j + 1)
    ELSE sb
\* The loop of line 211 stopping one block early.
RECURSIVE FreeExtent_Short(_, _, _, _)
FreeExtent_Short(sb, start, length, j) ==
    IF j < length - 1
    THEN FreeExtent_Short(osfs_free_data_block(sb, start + j), start, length, j + 1)
    ELSE sb
\* Lines 211-213: the blocks of one extent go back to the pool.
RECURSIVE FreeExtent(_, _, _, _)
FreeExtent(sb, start, length, j) ==
    IF j < length
    THEN FreeExtent(osfs_free_data_block(sb, start + j), start, length, j + 1)
    ELSE sb

\* Lines 210-216.
RECURSIVE FreeAll(_, _, _, _, _)
FreeAll(sb, block_nos, block_length, blocks, i) ==
    IF i < blocks
    THEN FreeAll(FreeExtent(sb, block_nos[i + 1], block_length[i + 1], 0),
                 [block_nos EXCEPT ![i + 1] = UNSET],
                 [block_length EXCEPT ![i + 1] = UNSET], blocks, i + 1)
    ELSE [bm |-> sb.bm, fr |-> sb.fr, nos |-> block_nos, len |-> block_length]

\* The state an unlink leaves a file in and only an unlink does: i_blocks is
\* not 0 and every entry below it is unset (lines 214-215).
WasReleased(f) ==
    /\ i_blocks[f] > 0
    /\ \A k \in 1 .. i_blocks[f] : i_blocks_length[f][k] = UNSET

\* osfs_unlink, lines 193-226.  res: for the unlink of a file released
\* before, the pool before the call.
Unlink(f) ==
    LET follows == last.op = "write" /\ last.f = f /\ last.first /\ last.ret > 0
        again == WasReleased(f)
    IN \E r \in {FreeAll([bm |-> block_bitmap, fr |-> nr_free_blocks],
                         i_blocks_ptr[f], i_blocks_length[f], i_blocks[f], 0)} :
       /\ block_bitmap' = r.bm
       /\ nr_free_blocks' = r.fr
       /\ i_blocks_ptr' = [i_blocks_ptr EXCEPT ![f] = r.nos]
       /\ i_blocks_length' = [i_blocks_length EXCEPT ![f] = r.len]
       /\ UNCHANGED <<i_blocks, i_size, data_blocks, held, procs>>
       /\ last' = [NoCall EXCEPT !.op = "unlink", !.f = f, !.after = follows,
                                 !.snap = IF follows THEN last.snap ELSE NoSnap,
                                 !.res = IF again
                                         THEN <<block_bitmap, nr_free_blocks>>
                                         ELSE <<>>]
       /\ io' = NoIO

\* The scan of lines 112-119 taking the last free block instead of the first.
RECURSIVE FirstFree_Highest(_, _)
FirstFree_Highest(bm, i) ==
    IF i >= BlockCount THEN BlockCount
    ELSE IF FirstFree_Highest(bm, i + 1) < BlockCount
         THEN FirstFree_Highest(bm, i + 1)
         ELSE IF ~bm[i] THEN i ELSE BlockCount

\* ------------------------------------------------ osfs_alloc_data_block
\* Lines 112-121: the lowest free block from i on, or BlockCount when none.
RECURSIVE FirstFree(_, _)
FirstFree(bm, i) ==
    IF i >= BlockCount THEN BlockCount
    ELSE IF ~bm[i] THEN i ELSE FirstFree(bm, i + 1)

osfs_alloc_data_block(sb) ==
    LET i == FirstFree(sb.bm, 0)
    IN IF i < BlockCount
       THEN [bm |-> [sb.bm EXCEPT ![i] = TRUE], fr |-> sb.fr - 1,
             block_no |-> <<i>>, ret |-> 0]
       ELSE [bm |-> sb.bm, fr |-> sb.fr, block_no |-> <<>>, ret |-> -ENOSPC]

\* -------------------------------------- osfs_alloc_multiple_data_blocks
\* Line 138: the test that extends the current extent over block i.
AllocRunContinues(bm, i) == i < BlockCount /\ bm[i]

\* Lines 129-150.  block_idx stays 0; the extension counts into
\* block_length[block_count].
RECURSIVE AllocScan(_, _, _, _)
AllocTaken(st2, i, block_needed) ==
    IF st2.cnt = block_needed
    THEN [st2 EXCEPT !.ret = 0]
    ELSE AllocScan(st2, i + 1, TRUE, block_needed)
AllocScan(st, i, inrun, block_needed) ==
    IF inrun
    THEN IF AllocRunContinues(st.bm, i)
         THEN AllocTaken([st EXCEPT !.bm = [st.bm EXCEPT ![i] = TRUE],
                                    !.len = IncrAt(st.len, st.cnt),
                                    !.fr = st.fr - 1,
                                    !.cnt = st.cnt + 1],
                         i, block_needed)
         ELSE AllocScan(st, i, FALSE, block_needed)
    ELSE IF i >= BlockCount
         THEN [st EXCEPT !.ret = -ENOSPC]
         ELSE IF ~st.bm[i]
              THEN AllocTaken([st EXCEPT !.bm = [st.bm EXCEPT ![i] = TRUE],
                                         !.fr = st.fr - 1,
                                         !.nos = StoreAt(st.nos, st.idx, i),
                                         !.len = StoreAt(st.len, st.idx, 1),
                                         !.cnt = st.cnt + 1],
                              i, block_needed)
              ELSE AllocScan(st, i + 1, FALSE, block_needed)

osfs_alloc_multiple_data_blocks(sb, block_nos, block_length, block_needed) ==
    AllocScan([bm |-> sb.bm, fr |-> sb.fr, nos |-> block_nos, len |-> block_length,
               idx |-> 0, cnt |-> 0, ub |-> FALSE, ret |-> 0],
              0, FALSE, block_needed)

\* A call of osfs_alloc_data_block on its own.
AllocOne ==
    \E r \in {osfs_alloc_data_block([bm |-> block_bitmap, fr |-> nr_free_blocks])} :
       /\ block_bitmap' = r.bm
       /\ nr_free_blocks' = r.fr
       /\ last' = [NoCall EXCEPT !.op = "alloc_one", !.ret = r.ret,
                                 !.res = r.block_no,
                                 !.snap = [bm |-> block_bitmap, fr |-> nr_free_blocks]]
       /\ UNCHANGED <<data_blocks, i_blocks, i_size, i_blocks_ptr, i_blocks_length, io,
                    held, procs>>

\* A call of osfs_alloc_multiple_data_blocks on its own, for a file that owns
\* no block, with arrays of block_needed unset entries.
AllocMultiple(block_needed) ==
    \E r \in {osfs_alloc_multiple_data_blocks(
                  [bm |-> block_bitmap, fr |-> nr_free_blocks],
                  Fill(block_needed, UNSET), Fill(block_needed, UNSET),
                  block_needed)} :
       /\ block_bitmap' = r.bm
       /\ nr_free_blocks' = r.fr
       /\ last' = [NoCall EXCEPT !.op = "alloc_multiple", !.ret = r.ret,
                                 !.res = <<r.nos, r.len>>,
                                 !.snap = [bm |-> block_bitmap, fr |-> nr_free_blocks]]
       /\ UNCHANGED <<data_blocks, i_blocks, i_size, i_blocks_ptr, i_blocks_length, io,
                    held, procs>>

\* A call of osfs_realloc_multiple_data_blocks on its own, on the arrays of
\* file f as they are, for a block_needed the arrays have entries for and
\* the leading set entries already cover.
\* res: the arrays before the call and block_needed; snap: the pool before.
Realloc(f, block_needed) ==
    /\ block_needed <= Len(i_blocks_length[f])
    /\ CountHeld(i_blocks_length[f], block_needed, 0, 0).cnt >= block_needed
    /\ \E r \in {osfs_realloc_multiple_data_blocks(
                    [bm |-> block_bitmap, fr |-> nr_free_blocks],
                    i_blocks_ptr[f], i_blocks_length[f], block_needed)} :
         /\ block_bitmap' = r.bm
         /\ nr_free_blocks' = r.fr
         /\ i_blocks_ptr' = [i_blocks_ptr EXCEPT ![f] = r.nos]
         /\ i_blocks_length' = [i_blocks_length EXCEPT ![f] = r.len]
         /\ last' = [NoCall EXCEPT
                       !.op = "realloc", !.f = f, !.ret = r.ret, !.ub = r.ub,
                       !.res = <<i_blocks_ptr[f], i_blocks_length[f], block_needed>>,
                       !.snap = [bm |-> block_bitmap, fr |-> nr_free_blocks]]
    /\ UNCHANGED <<data_blocks, i_blocks, i_size, io, held, procs>>

\* --------------------------------------------------------- specification
\* The files are new (no block, size 0); some blocks of the pool are held by
\* other inodes (other files, the directories), which keep them.
Init ==
    /\ held \in SUBSET Blocks
    /\ block_bitmap = [b \in Blocks |-> b \in held]
    /\ nr_free_blocks = BlockCount - Cardinality(held)
    /\ data_blocks = [a \in 0 .. (PoolBytes - 1) |-> 0]
    /\ i_blocks = Fill(NFiles, 0)
    /\ i_size = Fill(NFiles, 0)
    /\ i_blocks_ptr = Fill(NFiles, <<>>)
    /\ i_blocks_length = Fill(NFiles, <<>>)
    /\ last = NoCall
    /\ io = NoIO
    /\ procs = Fill(NFiles, IdleProc)

\* Writes and unlinks, on any file, with any offset and length.
DoWrite == \E f \in Files : \E ppos \in 0 .. (MaxPos - 1) :
              \E len \in 1 .. (MaxPos - ppos) : Write(f, ppos, len)

DoUnlink == \E f \in Files : Unlink(f)

Next == DoWrite \/ DoUnlink

Spec == Init /\ [][Next]_vars

\* The allocators called on their own, between writes and unlinks.
MaxNeeded == 3

DoAllocOne == AllocOne

DoAllocMultiple == \E block_needed \in 1 .. MaxNeeded : AllocMultiple(block_needed)

NextAlloc == DoWrite \/ DoUnlink \/ DoAllocOne \/ DoAllocMultiple

SpecAlloc == Init /\ [][NextAlloc]_vars

\* Writes of tagged bytes, reads and unlinks of one file.
DataFiles == {1}

DoWriteData == \E f \in DataFiles : \E ppos \in 0 .. (MaxPos - 1) :
                  \E len \in 1 .. (MaxPos - ppos) : WriteData(f, ppos, len)

DoRead == \E f \in DataFiles : \E ppos \in 0 .. (MaxPos - 1) :
              \E len \in 1 .. (MaxPos - ppos) : Read(f, ppos, len)

NextData == DoWriteData \/ DoRead \/ DoUnlink

SpecData == Init /\ [][NextData]_vars

\* Writes from offset 0 of up to MaxLen bytes (block_needed up to the whole
\* pool) and unlinks: a write may fail after it took some blocks, and a later
\* write of the same file may grow it.
MaxLen == 6

DoWriteLong == \E f \in Files : \E len \in 1 .. MaxLen : Write(f, 0, len)

NextGrow == DoWriteLong \/ DoUnlink

SpecGrow == Init /\ [][NextGrow]_vars

\* The translation asked for any block of any file, between such writes and
\* unlinks.
DoLocate == \E f \in Files : \E b \in 0 .. (BlockCount - 1) : Locate(f, b)

NextLocate == DoWriteLong \/ DoUnlink \/ DoLocate

SpecLocate == Init /\ [][NextLocate]_vars

\* The allocator called on its own on a file's arrays, between such writes
\* and unlinks.
DoRealloc == \E f \in Files : \E block_needed \in 1 .. MaxNeeded :
                Realloc(f, block_needed)

NextRealloc == DoWriteLong \/ DoUnlink \/ DoRealloc

SpecRealloc == Init /\ [][NextRealloc]_vars

\* ------------------------------------------------- concurrent writes
\* Two callers, one per file, each in one osfs_write that grows its file.
\* No lock is taken in osfs_write or in the allocator (file.c 76-181, inode.c
\* 153-198), so the steps below interleave freely: the test of a bit, the
\* set_bit that follows it, and the load and the store of the decrement of
\* nr_free_blocks.

\* Lines 96-116 and 155-162: the arrays are prepared and the blocks already
\* held are counted; the scan starts at block 0.
WriteBegin(p, ppos, len) ==
    LET block_needed == BlockNeeded(ppos, len)
        nos0 == PrepareArrays(i_blocks_ptr[p], i_blocks[p], block_needed)
        len0 == PrepareArrays(i_blocks_length[p], i_blocks[p], block_needed)
    IN /\ procs[p].pc = "idle"
       /\ NeedsGrowth(i_blocks[p], block_needed)
       /\ \E counted \in {CountHeld(len0, block_needed, 0, 0)} :
            procs' = [procs EXCEPT ![p] =
                        [IdleProc EXCEPT !.pc = "test", !.ppos = ppos, !.len = len,
                                         !.needed = block_needed,
                                         !.idx = counted.idx, !.cnt = counted.cnt]]
       /\ i_blocks_ptr' = [i_blocks_ptr EXCEPT ![p] = nos0]
       /\ i_blocks_length' = [i_blocks_length EXCEPT ![p] = len0]
       /\ UNCHANGED <<block_bitmap, nr_free_blocks, data_blocks, i_blocks, i_size,
                      last, io, held>>

\* Lines 174-175: the loop test and the test_bit that looks for a free block.
ScanTestBit(p) ==
    /\ procs[p].pc = "test"
    /\ procs' = [procs EXCEPT ![p] =
                   IF @.i >= BlockCount
                   THEN [@ EXCEPT !.pc = "fail"]
                   ELSE IF BlockIsFree(block_bitmap, @.i)
                        THEN [@ EXCEPT !.pc = "set", !.inrun = FALSE]
                        ELSE [@ EXCEPT !.i = @ + 1]]
    /\ UNCHANGED <<block_bitmap, nr_free_blocks, data_blocks, i_blocks, i_size,
                   i_blocks_ptr, i_blocks_length, last, io, held>>

\* Lines 176 and 184: set_bit on the block the test found free.
ScanSetBit(p) ==
    /\ procs[p].pc = "set"
    /\ block_bitmap' = [block_bitmap EXCEPT ![procs[p].i] = TRUE]
    /\ procs' = [procs EXCEPT ![p] =
                   [@ EXCEPT !.pc = "load", !.claimed = @ \cup {procs[p].i}]]
    /\ UNCHANGED <<nr_free_blocks, data_blocks, i_blocks, i_size,
                   i_blocks_ptr, i_blocks_length, last, io, held>>

\* Lines 177 and 186: nr_free_blocks--, its load.
ScanLoadFree(p) ==
    /\ procs[p].pc = "load"
    /\ procs' = [procs EXCEPT ![p] = [@ EXCEPT !.pc = "store", !.tmp = nr_free_blocks]]
    /\ UNCHANGED <<block_bitmap, nr_free_blocks, data_blocks, i_blocks, i_size,
                   i_blocks_ptr, i_blocks_length, last, io, held>>

\* Lines 177-182 and 185-189: the store of the decrement, the extent entry,
\* block_count++, i++ and the test that ends the call.
ScanStoreFree(p) ==
    LET pr == procs[p]
        done == pr.cnt + 1 = pr.needed
    IN /\ pr.pc = "store"
       /\ nr_free_blocks' = pr.tmp - 1
       /\ i_blocks_ptr' = [i_blocks_ptr EXCEPT ![p] =
                             IF pr.inrun THEN @ ELSE StoreAt(@, pr.idx, pr.i)]
       /\ i_blocks_length' = [i_blocks_length EXCEPT ![p] =
                                IF pr.inrun THEN IncrAt(@, pr.idx)
                                ELSE StoreAt(@, pr.idx, 1)]
       /\ procs' = [procs EXCEPT ![p] =
                      [@ EXCEPT !.pc = IF done THEN "done" ELSE "run",
                                !.cnt = @ + 1, !.i = @ + 1]]
       /\ UNCHANGED <<block_bitmap, data_blocks, i_blocks, i_size, last, io, held>>

\* Lines 183 and 191-192: the test of the while loop; when it fails, i--,
\* block_idx++ and the i++ of the for loop.
RunTestBit(p) ==
    /\ procs[p].pc = "run"
    /\ procs' = [procs EXCEPT ![p] =
                   IF RunContinues(block_bitmap, @.i)
                   THEN [@ EXCEPT !.pc = "set", !.inrun = TRUE]
                   ELSE [@ EXCEPT !.pc = "test", !.inrun = FALSE, !.idx = @ + 1]]
    /\ UNCHANGED <<block_bitmap, nr_free_blocks, data_blocks, i_blocks, i_size,
                   i_blocks_ptr, i_blocks_length, last, io, held>>

\* Lines 121-180 of osfs_write after the allocator returned 0.
WriteEnd(p) ==
    LET pr == procs[p]
    IN /\ pr.pc = "done"
       /\ i_blocks' = [i_blocks EXCEPT ![p] = pr.needed]
       /\ i_size' = [i_size EXCEPT ![p] = NewSize(@, pr.ppos, pr.len)]
       /\ \E c \in {CopyIn(data_blocks, p, FALSE, i_blocks_ptr[p],
                           i_blocks_length[p], pr.ppos, pr.len)} :
            data_blocks' = c.data
       /\ procs' = [procs EXCEPT ![p] = [@ EXCEPT !.pc = "end", !.ret = pr.len]]
       /\ UNCHANGED <<block_bitmap, nr_free_blocks, i_blocks_ptr, i_blocks_length,
                      last, io, held>>

\* Lines 117-119 and 196-197: the allocator found no block; -ENOSPC.
WriteFail(p) ==
    /\ procs[p].pc = "fail"
    /\ procs' = [procs EXCEPT ![p] = [@ EXCEPT !.pc = "end", !.ret = -ENOSPC]]
    /\ UNCHANGED <<block_bitmap, nr_free_blocks, data_blocks, i_blocks, i_size,
                   i_blocks_ptr, i_blocks_length, last, io, held>>

DoWriteBegin == \E p \in Files : \E ppos \in 0 .. (MaxPos - 1) :
                   \E len \in 1 .. (MaxPos - ppos) : WriteBegin(p, ppos, len)
DoScanTestBit == \E p \in Files : ScanTestBit(p)
DoScanSetBit == \E p \in Files : ScanSetBit(p)
DoScanLoadFree == \E p \in Files : ScanLoadFree(p)
DoScanStoreFree == \E p \in Files : ScanStoreFree(p)
DoRunTestBit == \E p \in Files : RunTestBit(p)
DoWriteEnd == \E p \in Files : WriteEnd(p)
DoWriteFail == \E p \in Files : WriteFail(p)

NextConc == \/ DoWriteBegin \/ DoScanTestBit \/ DoScanSetBit \/ DoScanLoadFree
            \/ DoScanStoreFree \/ DoRunTestBit \/ DoWriteEnd \/ DoWriteFail

SpecConc == Init /\ [][NextConc]_vars

\* ================================================================ claims

ZeroBits == {b \in Blocks : ~block_bitmap[b]}

\* C1: after any sequence of allocation calls (osfs_alloc_data_block,
\* osfs_alloc_multiple_data_blocks, osfs_realloc_multiple_data_blocks) and
\* of frees driven by write and unlink, nr_free_blocks equals the number of
\* zero bits of block_bitmap.
C1_FreeCountMatchesBitmap == nr_free_blocks = Cardinality(ZeroBits)

\* ------------------------------------------------------------- extents
\* The set entries of file f's arrays, and the blocks of entry k.
Extents(f) ==
    {k \in 1 .. Len(i_blocks_length[f]) : i_blocks_length[f][k] /= UNSET}
BlocksOf(f, k) ==
    i_blocks_ptr[f][k] .. (i_blocks_ptr[f][k] + i_blocks_length[f][k] - 1)
\* The entries osfs_unlink walks: those below i_blocks.
Released(f) == {k \in Extents(f) : k <= i_blocks[f]}
SetEntries(f) ==
    {<<k, i_blocks_ptr[f][k], i_blocks_length[f][k]>> : k \in Extents(f)}

Positions == {<<p, l>> \in (0 .. (MaxPos - 1)) \X (1 .. MaxPos) : p + l <= MaxPos}

\* C2: in every state reached by writes and unlinks, no block lies in two
\* different live extents, of one file or of two.
C2_ExtentsDisjoint ==
    \A f \in Files, g \in Files :
      \A k \in Extents(f), m \in Extents(g) :
        (f /= g \/ k /= m) => BlocksOf(f, k) \cap BlocksOf(g, m) = {}

\* C2 witness: one file holds two extents with a gap between them and the
\* other file holds an extent as well.
C2_Witness ==
    \E f \in Files, g \in Files :
       /\ f /= g
       /\ Extents(g) /= {}
       /\ {1, 2} \subseteq Extents(f)
       /\ i_blocks_ptr[f][2] > i_blocks_ptr[f][1] + i_blocks_length[f][1]

\* C3: a write that fails with -ENOSPC leaves block_bitmap, nr_free_blocks,
\* the file's extent list and i_blocks as they were before the call.
C3_FailedWriteChangesNothing ==
    [][(last'.op = "write" /\ last'.ret < 0) =>
          /\ block_bitmap' = block_bitmap
          /\ nr_free_blocks' = nr_free_blocks
          /\ i_blocks' = i_blocks
          /\ \A f \in Files : SetEntries(f)' = SetEntries(f)]_vars

\* C7: a successful write of len bytes at ppos leaves i_size equal to the
\* larger of the previous i_size and ppos + len.
C7_SizeIsMax ==
    [][\A f \in Files : \A pl \in Positions :
          (Write(f, pl[1], pl[2]) /\ last'.ret >= 0) =>
              i_size'[f] = Max(i_size[f], pl[1] + pl[2])]_vars

\* C8: every block marked allocated by a write lies in an extent that the
\* unlink of its file frees, so that the bitmap is back to the start once
\* every file is unlinked.
C8_AllocatedBlocksAreOwned ==
    \A b \in Blocks \ held :
       block_bitmap[b] => \E f \in Files : \E k \in Released(f) : b \in BlocksOf(f, k)

\* C9: the first write of an empty file followed at once by the unlink of
\* that file leaves block_bitmap and nr_free_blocks as they were before the
\* write.
C9_AllocThenReleaseRestoresPool ==
    (last.op = "unlink" /\ last.after) =>
        (block_bitmap = last.snap.bm /\ nr_free_blocks = last.snap.fr)

\* C9 witness: such an unlink, of a file whose write took two blocks on both
\* sides of a block another inode holds.
C9_Witness ==
    /\ last.op = "unlink" /\ last.after
    /\ i_blocks[last.f] = 2
    /\ \E b \in Blocks : /\ b - 1 \in Blocks /\ b + 1 \in Blocks
                         /\ last.snap.bm[b]
                         /\ ~last.snap.bm[b - 1] /\ ~last.snap.bm[b + 1]

\* C10: after the unlink of a file its extent list is empty, it owns no
\* block (i_blocks = 0) and its size is 0.
C10_UnlinkedFileIsEmpty ==
    last.op = "unlink" =>
        /\ Extents(last.f) = {}
        /\ i_blocks[last.f] = 0
        /\ i_size[last.f] = 0

\* The bytes file f stored at the logical offsets ppos .. ppos + len - 1.
Written(f, ppos, len) == [k \in 1 .. len |-> Payload(f, ppos + k - 1)]

\* The first logical block of entry k of file f, and whether the logical
\* blocks b1 .. b2 run from entry k into entry k + 1 with a physical gap (or
\* step back) between the two.
RECURSIVE FirstLogical(_, _)
FirstLogical(f, k) ==
    IF k = 1 THEN 0 ELSE FirstLogical(f, k - 1) + i_blocks_length[f][k - 1]
CrossesGap(f, b1, b2) ==
    \E k \in Extents(f) :
       /\ \A m \in 1 .. k : m \in Extents(f)
       /\ k + 1 \in Extents(f)
       /\ i_blocks_ptr[f][k + 1] /= i_blocks_ptr[f][k] + i_blocks_length[f][k]
       /\ b1 < FirstLogical(f, k + 1)
       /\ b1 >= FirstLogical(f, k)
       /\ b2 >= FirstLogical(f, k + 1)
       /\ b2 < FirstLogical(f, k + 1) + i_blocks_length[f][k + 1]

\* C5: a write of len bytes at ppos to an empty file followed by a read of
\* len bytes at ppos returns len bytes, the ones written.
C5_WriteThenReadRoundTrip ==
    (last.op = "read" /\ io.r.after /\ io.r.first) =>
        /\ io.r.ret = io.r.len
        /\ io.r.out = Written(io.r.f, io.r.pos, io.r.len)

\* C6: for a file grown into two extents that are not physically adjacent,
\* one read of a range that runs from the first extent into the second
\* returns the bytes the write stored at those logical offsets.
C6_ReadAcrossExtents ==
    (/\ last.op = "read" /\ io.r.after /\ io.r.grew
     /\ CrossesGap(io.r.f, io.r.pos \div BLOCK_SIZE,
                   (io.r.pos + io.r.len - 1) \div BLOCK_SIZE)) =>
        /\ io.r.ret = io.r.len
        /\ io.r.out = Written(io.r.f, io.r.pos, io.r.len)

\* C4: when two writes that grow two different files run at the same time,
\* interleaved at the steps of the bitmap scan, no block is marked by both
\* calls.
C4_NoBlockClaimedTwice ==
    \A p \in Files, q \in Files :
       p /= q => procs[p].claimed \cap procs[q].claimed = {}

\* C11: a successful write that grows a file which owns blocks leaves every
\* extent of the list at its index with its start and length; the extents
\* it adds come after them.
C11_GrowthKeepsExtents ==
    [][\A f \in Files : \A len \in 1 .. MaxLen :
          (/\ Write(f, 0, len) /\ last'.ret >= 0
           /\ i_blocks[f] > 0
           /\ NeedsGrowth(i_blocks[f], BlockNeeded(0, len))) =>
              /\ SetEntries(f) \subseteq SetEntries(f)'
              /\ \A k \in Extents(f)' \ Extents(f) : \A m \in Extents(f) : m < k]_vars

\* The entries before the first unset one (the ones the counting loop of
\* osfs_realloc_multiple_data_blocks counts) and the blocks they cover.
RECURSIVE LeadingEntries(_, _)
LeadingEntries(f, k) ==
    IF k < Len(i_blocks_length[f]) /\ i_blocks_length[f][k + 1] /= UNSET
    THEN LeadingEntries(f, k + 1) ELSE k
RECURSIVE BlocksBefore(_, _)
BlocksBefore(f, e) ==
    IF e = 0 THEN 0 ELSE BlocksBefore(f, e - 1) + i_blocks_length[f][e]
CoveredBlocks(f) == BlocksBefore(f, LeadingEntries(f, 0))

C15_UncoveredBlockIsRefused ==
    (last.op = "translate" /\ last.res[1] >= CoveredBlocks(last.f)) => last.ret < 0

\* C12: osfs_realloc_multiple_data_blocks called with arrays whose lengths
\* already sum to block_needed or more returns 0 and leaves the bitmap, the
\* free count and the arrays as they were.
C12_CoveredReallocIsNoOp ==
    (/\ last.op = "realloc"
     /\ CountHeld(last.res[2], last.res[3], 0, 0).cnt >= last.res[3]) =>
        /\ last.ret = 0
        /\ block_bitmap = last.snap.bm
        /\ nr_free_blocks = last.snap.fr
        /\ i_blocks_ptr[last.f] = last.res[1]
        /\ i_blocks_length[last.f] = last.res[2]

\* The entries an allocator called on its own has set in its arrays, the
\* blocks of one of them, and the sum of their lengths.
ResultEntries ==
    {k \in 1 .. Len(last.res[2]) :
        last.res[1][k] /= UNSET \/ last.res[2][k] /= UNSET}
ResultBlocks(k) ==
    {b \in 0 .. (BlockCount + MaxNeeded) :
        b >= last.res[1][k] /\ b < last.res[1][k] + last.res[2][k]}
RECURSIVE ResultSum(_)
ResultSum(k) ==
    IF k = 0 THEN 0
    ELSE ResultSum(k - 1) + (IF k \in ResultEntries THEN last.res[2][k] ELSE 0)

\* C13: a successful osfs_alloc_multiple_data_blocks(block_needed) leaves
\* extents of length 1 or more, each a run of blocks that were all free before
\* the call; it marks no block outside them; their lengths sum to block_needed.
C13_AllocMultipleReturnsFreeRuns ==
    (last.op = "alloc_multiple" /\ last.ret = 0) =>
        /\ \A k \in ResultEntries :
              /\ last.res[1][k] /= UNSET
              /\ last.res[2][k] >= 1
              /\ \A b \in ResultBlocks(k) : b \in Blocks /\ ~last.snap.bm[b]
        /\ \A b \in Blocks :
              (block_bitmap[b] /\ ~last.snap.bm[b]) =>
                  \E k \in ResultEntries : b \in ResultBlocks(k)
        /\ ResultSum(Len(last.res[2])) = Len(last.res[2])

\* The free blocks of the pool before a call of an allocator on its own.
FreeBefore == {b \in Blocks : ~last.snap.bm[b]}

\* C16: osfs_alloc_data_block returns the lowest-numbered free block, sets
\* that bit and no other and takes one from nr_free_blocks; with no free
\* block it returns -ENOSPC and leaves the bitmap and nr_free_blocks alone.
C16_AllocOneTakesLowestFree ==
    (last.op = "alloc_one") =>
        IF FreeBefore /= {}
        THEN /\ last.ret = 0
             /\ Len(last.res) = 1
             /\ last.res[1] \in FreeBefore
             /\ \A b \in FreeBefore : last.res[1] <= b
             /\ block_bitmap = [last.snap.bm EXCEPT ![last.res[1]] = TRUE]
             /\ nr_free_blocks = last.snap.fr - 1
        ELSE /\ last.ret = -ENOSPC
             /\ block_bitmap = last.snap.bm
             /\ nr_free_blocks = last.snap.fr

\* C16 witness: a call that found block 0 taken and more than one block free.
C16_Witness ==
    /\ last.op = "alloc_one" /\ last.ret = 0
    /\ last.snap.bm[0]
    /\ Cardinality(FreeBefore) >= 2

\* C17: a read at offset O of length L returns 0 and leaves the position
\* when the file owns no block or O >= size; otherwise it returns
\* min(L, size - O) and moves the position on by that; it leaves the size,
\* the extent list and the bitmap as they were.
C17_ReadReturnsClampedLength ==
    (last.op = "read") =>
        LET O == last.res[1]
            L == last.res[2]
            size == last.res[4]
        IN /\ IF Extents(last.f) = {} \/ O >= size
              THEN last.ret = 0 /\ last.res[3] = O
              ELSE /\ last.ret = (IF L < size - O THEN L ELSE size - O)
                   /\ last.res[3] = O + last.ret
           /\ i_size[last.f] = size
           /\ i_blocks_ptr[last.f] = last.res[5]
           /\ i_blocks_length[last.f] = last.res[6]
           /\ block_bitmap = last.snap.bm
           /\ nr_free_blocks = last.snap.fr

\* C18: the unlink of a file that was released before (and not grown since)
\* frees no block: block_bitmap and nr_free_blocks stay as they were, whatever
\* other files allocated since the first release.
C18_SecondReleaseFreesNothing ==
    (last.op = "unlink" /\ Len(last.res) = 2) =>
        /\ block_bitmap = last.res[1]
        /\ nr_free_blocks = last.res[2]

\* C18 witness: a second release while another file owns extents and no
\* block of the pool is free.
C18_Witness ==
    /\ last.op = "unlink" /\ Len(last.res) = 2
    /\ \E g \in Files \ {last.f} : Released(g) /= {}
    /\ \A b \in Blocks : block_bitmap[b]

\* C19: every call terminates; for the translation loop of read and write
\* that needs the walk to end at an entry inside the arrays of the file.
C19_TranslationStopsInList ==
    (last.op = "translate") => ~last.ub

\* The writes of Spec alone.
NextWrites == DoWrite

SpecWrites == Init /\ [][NextWrites]_vars

\* The sum of the lengths of the set entries of the first k entries of f.
RECURSIVE SetLengths(_, _)
SetLengths(f, k) ==
    IF k = 0 THEN 0
    ELSE SetLengths(f, k - 1) + (IF k \in Extents(f) THEN i_blocks_length[f][k] ELSE 0)

\* C20: after any sequence of writes, failed ones included, i_blocks of a file
\* is the sum of the lengths of the set entries of its i_blocks_length.
C20_BlockCountMatchesLengths ==
    \A f \in Files : i_blocks[f] = SetLengths(f, Len(i_blocks_length[f]))

====
